---- MODULE Spec2Model ----
(***************************************************************************)
(* Model of compare-video.py: one run of the command line tool, from the   *)
(* parsed arguments to the exit of the process.                            *)
(*                                                                         *)
(* The run is single threaded.  Every action below is one segment of       *)
(* main() between two interactions with the outside world (a subprocess    *)
(* call, the end of a subprocess, a file-existence test) or one iteration  *)
(* of a loop; `pc` is the position of the interpreter.                     *)
(*                                                                         *)
(* --metrics only shapes the command line of the metrics engine, whose      *)
(* output is an input of the model; it is not part of the state.           *)
(*                                                                         *)
(* Numbers (JSON floats) are integers in units of 10^-5, so that the       *)
(* comparisons of the tier chain are exact and the two print formats       *)
(* (.2f, .4f) round.                                                       *)
(***************************************************************************)
EXTENDS Integers, Sequences, FiniteSets

VARIABLES
    args,             \* argparse namespace: youtube, reference, distorted, youtube_output
    fs,               \* the paths that exist in the file system
    pc,               \* position of the interpreter
    reference_video,  \* main's local variable
    checked,          \* number of paths the existence loop has passed
    running,          \* child processes alive (subprocess.run blocks on them)
    results,          \* the parsed document handed to display_results
    i,                \* display_results: index of the next (metric, data) item
    stdout,           \* lines printed so far, one element per print() call
    stderr,           \* uncaught exceptions reported by the interpreter
    events,           \* history of the interactions with the outside world
    exit_code         \* exit status of the process, meaningful once pc = "exited"

vars == <<args, fs, pc, reference_video, checked, running, results, i,
          stdout, stderr, events, exit_code>>

----------------------------------------------------------------------------
(* Bounds of the explored inputs *)

MaxFrames == 2       \* per-frame records in a vmaf object
MaxComponents == 2   \* members of a psnr / ssim object
MaxMetrics == 2      \* top-level keys of a multi-metric document

----------------------------------------------------------------------------
(* Values *)

None == "None"

\* a number with integer part w and fractional part f / 10^5
Num(w, f) == w * 100000 + f

\* f"{x:.2f}" and f"{x:.4f}": the value rounded to hundredths / ten-thousandths
\* (the explored numbers contain no exact tie)
Fmt2(x) == (x + 500) \div 1000
Fmt4(x) == (x + 5) \div 10

TmpPath == "/tmp/youtube_download.mp4"
YtDlp == "yt-dlp"
Engine == "ffmpeg-quality-metrics"

\* ---- JSON documents -------------------------------------------------------
\* A JSON value is [kind, members]; an object's members are kept in document
\* order, each [name, num, list]: a number, or (for the name "frames") the
\* list of per-frame records.  A per-frame record says whether it has a
\* "metrics" entry, whether that has a "vmaf" value, and the value.

Frame(hasMetrics, hasVmaf, v) == [metrics |-> hasMetrics, vmaf |-> hasVmaf, v |-> v]
NumMember(name, x) == [name |-> name, num |-> x, list |-> <<>>]
FramesMember(l) == [name |-> "frames", num |-> 0, list |-> l]
Object(members) == [kind |-> "object", members |-> members]
Raw(kind) == [kind |-> kind, members |-> <<>>]
NoDoc == Raw("none")

SeqsUpTo(S, n) == UNION {[1..k -> S] : k \in 0..n}

Names(members) == {members[k].name : k \in DOMAIN members}
DistinctNames(members) ==
    \A a, b \in DOMAIN members : members[a].name = members[b].name => a = b

\* dict lookups: `name in data`, data[name]
Has(data, name) == name \in Names(data.members)
Member(data, name) ==
    data.members[CHOOSE k \in DOMAIN data.members : data.members[k].name = name]

MinOf(S) == CHOOSE x \in S : \A y \in S : x <= y
MaxOf(S) == CHOOSE x \in S : \A y \in S : x >= y

\* ---- the explored inputs --------------------------------------------------

Url == "https://youtu.be/x"
RefPath == "ref.mp4"
DistPath == "dist.mp4"
OutPath == "out.mp4"

\* --reference XOR --youtube (a required mutually exclusive group; argparse
\* counts --youtube "" as given), --distorted required, --youtube-output optional
ArgSets ==
    {[youtube |-> None, reference |-> RefPath, distorted |-> DistPath,
      youtube_output |-> None]}
    \cup {[youtube |-> y, reference |-> None, distorted |-> DistPath,
           youtube_output |-> o] : y \in {"", Url}, o \in {None, OutPath}}

\* the paths of the run whose existence the run can depend on
PathsOf(a) ==
    {a.distorted}
    \cup (IF a.reference = None THEN {} ELSE {a.reference})
    \cup (IF a.youtube = None THEN {}
          ELSE {IF a.youtube_output = None THEN TmpPath ELSE a.youtube_output})

ExitStatuses == {0, 1}

MeanVals ==
    {Num(0, 0), Num(0, 1), Num(19, 99999), Num(20, 0), Num(39, 99999),
     Num(40, 0), Num(59, 99999), Num(60, 0), Num(79, 99999), Num(80, 0),
     Num(92, 50000), Num(100, 0)}

FrameKinds ==
    {Frame(FALSE, FALSE, 0), Frame(TRUE, FALSE, 0),
     Frame(TRUE, TRUE, Num(90, 0)), Frame(TRUE, TRUE, Num(95, 0))}
FrameLists == SeqsUpTo(FrameKinds, MaxFrames)

\* a vmaf result object: an optional mean score, optional per-frame records
VmafObjects ==
    {Object(m \o f) :
        m \in {<<>>} \cup {<<NumMember("mean", v)>> : v \in MeanVals},
        f \in {<<>>} \cup {<<FramesMember(l)>> : l \in FrameLists}}

\* a psnr / ssim result object: numeric components and optional per-frame
\* records, in any order
ComponentMembers ==
    {NumMember("psnr_avg", Num(45, 12344)), NumMember("mse_avg", Num(1, 98766)),
     NumMember("mse_avg", 0), FramesMember(<<>>),
     FramesMember(<<Frame(FALSE, FALSE, 0)>>)}
ComponentObjects ==
    {Object(m) : m \in {s \in SeqsUpTo(ComponentMembers, MaxComponents) :
                            DistinctNames(s)}}

\* the sub-document of a metric the reporter does not know: any JSON value
RawValues ==
    {Raw(k) : k \in {"null", "bool", "number", "string", "array"}}
    \cup {Object(<<>>), Object(<<NumMember("bar", Num(1, 0))>>)}

Entry(key, val) == [key |-> key, val |-> val]

\* the entries multi-metric documents are built from
SmallEntries ==
    {Entry("vmaf", v) :
        v \in {Object(<<>>), Object(<<NumMember("mean", 0)>>),
               Object(<<NumMember("mean", Num(92, 50000)),
                        FramesMember(<<Frame(TRUE, TRUE, Num(90, 0)),
                                       Frame(TRUE, TRUE, Num(95, 0))>>)>>)}}
    \cup {Entry("psnr", v) :
        v \in {Object(<<NumMember("psnr_avg", Num(45, 12344))>>),
               Object(<<FramesMember(<<>>), NumMember("psnr_avg", Num(45, 12344))>>)}}
    \cup {Entry("ssim", Object(<<NumMember("ssim_avg", Num(0, 98766))>>))}
    \cup {Entry("foo", v) : v \in RawValues}
    \cup {Entry("VMAF", Object(<<NumMember("mean", Num(50, 0))>>))}

DistinctKeys(entries) ==
    \A a, b \in DOMAIN entries : entries[a].key = entries[b].key => a = b

Document(entries) == [isObject |-> TRUE, entries |-> entries]
NotAnObject == [isObject |-> FALSE, entries |-> <<>>]

\* The documents json.loads can return that are explored: a top-level value
\* that is no object; one vmaf, psnr or ssim object of any explored shape;
\* the objects of up to MaxMetrics distinct keys in any order.  The values of
\* the keys vmaf, psnr and ssim have the shape the engine documents for them.
Docs ==
    {NotAnObject}
    \cup {Document(<<Entry("vmaf", v)>>) : v \in VmafObjects}
    \cup {Document(<<Entry(k, v)>>) : k \in {"psnr", "ssim"}, v \in ComponentObjects}
    \cup {Document(s) : s \in {t \in SeqsUpTo(SmallEntries, MaxMetrics) :
                                  DistinctKeys(t)}}

----------------------------------------------------------------------------
(* display_results, one metric *)

Line(k, s, n, doc) == [k |-> k, s |-> s, n |-> n, doc |-> doc]
Text(k) == Line(k, "", 0, NoDoc)

\* str.upper() on the explored keys
Upper(key) ==
    CASE key = "vmaf" -> "VMAF"
      [] key = "psnr" -> "PSNR"
      [] key = "ssim" -> "SSIM"
      [] key = "foo" -> "FOO"
      [] OTHER -> key

PoorFrom == 20
FairFrom == 40
GoodFrom == 60
ExcellentFrom == 80

\* lines 81-84
QualityTier(vmaf_score) ==
    IF vmaf_score < Num(PoorFrom, 0) THEN "Bad"
    ELSE IF vmaf_score < Num(FairFrom, 0) THEN "Poor"
    ELSE IF vmaf_score < Num(GoodFrom, 0) THEN "Fair"
    ELSE IF vmaf_score < Num(ExcellentFrom, 0) THEN "Good"
    ELSE "Excellent"

\* line 70, `if vmaf_score:` on data.get('mean', None): None and 0 are falsy
ScoreIsTruthy(data) == Has(data, "mean") /\ Member(data, "mean").num # 0

\* lines 71-85
ScoreLines(data) ==
    IF ScoreIsTruthy(data)
    THEN LET vmaf_score == Member(data, "mean").num
         IN  <<Line("vmaf_score", "", Fmt2(vmaf_score), NoDoc),
               Text("legend_title"), Text("legend_bad"), Text("legend_poor"),
               Text("legend_fair"), Text("legend_good"), Text("legend_excellent"),
               Line("quality_tier", QualityTier(vmaf_score), 0, NoDoc)>>
    ELSE <<>>

\* the frame details nested under `if vmaf_score:`
HasFramesWithScore(data) ==
    ScoreIsTruthy(data) /\ Has(data, "frames") /\ Member(data, "frames").list # <<>>

\* line 88, `'frames' in data and data['frames']`
HasFrames(data) == Has(data, "frames") /\ Member(data, "frames").list # <<>>

\* frame.get('metrics', {}).get('vmaf', 0)
FrameVmaf(frame) == IF frame.metrics /\ frame.vmaf THEN frame.v ELSE 0

\* lines 89-92
FrameLines(data) ==
    IF HasFrames(data)
    THEN LET frames == Member(data, "frames").list
             values == {FrameVmaf(frames[k]) : k \in DOMAIN frames}
         IN  <<Text("frames_title"),
               Line("analyzed", "", Len(frames), NoDoc),
               Line("min_vmaf", "", Fmt2(MinOf(values)), NoDoc),
               Line("max_vmaf", "", Fmt2(MaxOf(values)), NoDoc)>>
    ELSE <<>>

\* without the test of line 97
IsPrintedAlways(member) == TRUE

\* line 97
IsPrinted(member) == member.name # "frames"

\* lines 96-98
RECURSIVE ComponentLines(_, _)
ComponentLines(metric, members) ==
    IF members = <<>> THEN <<>>
    ELSE (IF IsPrinted(Head(members))
          THEN <<Line("component", Upper(metric) \o " " \o Head(members).name,
                      Fmt4(Head(members).num), NoDoc)>>
          ELSE <<>>)
         \o ComponentLines(metric, Tail(members))

\* the blank line of line 104 printed by the two known branches only
MetricBlockKnownBlank(metric, data) ==
    <<Line("metric_header", Upper(metric), 0, NoDoc)>>
    \o (IF metric = "vmaf"
        THEN ScoreLines(data) \o FrameLines(data) \o <<Text("blank")>>
        ELSE IF metric \in {"psnr", "ssim"}
        THEN ComponentLines(metric, data.members) \o <<Text("blank")>>
        ELSE <<Line("json", "", 0, data)>>)

\* lines 65-104: everything one iteration of the loop prints
MetricBlock(metric, data) ==
    <<Line("metric_header", Upper(metric), 0, NoDoc)>>
    \o (IF metric = "vmaf" THEN ScoreLines(data) \o FrameLines(data)
        ELSE IF metric \in {"psnr", "ssim"} THEN ComponentLines(metric, data.members)
        ELSE <<Line("json", "", 0, data)>>)
    \o <<Text("blank")>>

----------------------------------------------------------------------------
(* The run *)

Event(e, a) == [e |-> e, a |-> a]

\* sys.exit() without its argument: the status is 0
SysExitZero(code) == pc' = "exited" /\ exit_code' = 0

\* sys.exit(code), and the interpreter's exit on an uncaught exception
SysExit(code) == pc' = "exited" /\ exit_code' = code
Uncaught(exception) ==
    /\ stderr' = Append(stderr, exception)
    /\ SysExit(1)

\* lines 17-20
OutputPath == IF args.youtube_output = None THEN TmpPath ELSE args.youtube_output

Init ==
    /\ args \in ArgSets
    /\ fs \in SUBSET PathsOf(args)
    /\ pc = "main"
    /\ reference_video = None
    /\ checked = 0
    /\ running = {}
    /\ results = NotAnObject
    /\ i = 0
    /\ stdout = <<>>
    /\ stderr = <<>>
    /\ events = <<>>
    /\ exit_code = 0

\* line 127, `if args.youtube:`: None and "" are falsy
YoutubeRequested == args.youtube # None /\ args.youtube # ""

\* main, lines 126-130
Resolve ==
    /\ pc = "main"
    /\ IF YoutubeRequested
       THEN pc' = "download" /\ UNCHANGED reference_video
       ELSE pc' = "check" /\ reference_video' = args.reference
    /\ UNCHANGED <<args, fs, checked, running, results, i, stdout, stderr,
                   events, exit_code>>

\* the download started without waiting for it (Popen in place of run): the
\* path is returned at once
DownloadCallNoWait ==
    /\ pc = "download"
    /\ \E found \in BOOLEAN :
        IF found
        THEN /\ running' = running \cup {YtDlp}
             /\ events' = Append(events, Event("call", YtDlp))
             /\ stdout' = stdout \o <<Text("downloading"), Text("saving_to")>>
             /\ reference_video' = OutputPath
             /\ pc' = "check"
             /\ UNCHANGED exit_code
        ELSE /\ events' = events \o <<Event("call", YtDlp), Event("notfound", YtDlp)>>
             /\ stdout' = stdout \o <<Text("downloading"), Text("saving_to"),
                                      Text("err_ytdlp_not_found")>>
             /\ SysExit(1)
             /\ UNCHANGED <<running, reference_video>>
    /\ UNCHANGED <<args, fs, checked, results, i, stderr>>

\* download_youtube_video up to the start of the child, lines 17-27, and the
\* FileNotFoundError handler, lines 32-34
DownloadCall ==
    /\ pc = "download"
    /\ \E found \in BOOLEAN :
        IF found
        THEN /\ running' = running \cup {YtDlp}
             /\ events' = Append(events, Event("call", YtDlp))
             /\ stdout' = stdout \o <<Text("downloading"), Text("saving_to")>>
             /\ pc' = "dl_wait"
             /\ UNCHANGED exit_code
        ELSE /\ events' = events \o <<Event("call", YtDlp), Event("notfound", YtDlp)>>
             /\ stdout' = stdout \o <<Text("downloading"), Text("saving_to"),
                                      Text("err_ytdlp_not_found")>>
             /\ SysExit(1)
             /\ UNCHANGED running
    /\ UNCHANGED <<args, fs, reference_video, checked, results, i, stderr>>

\* the child ends: subprocess.run returns or raises, lines 27-31, and main
\* takes the returned path, line 128
DownloadExit ==
    /\ pc = "dl_wait"
    /\ \E status \in ExitStatuses, created \in BOOLEAN :
        /\ running' = running \ {YtDlp}
        /\ fs' = IF created THEN fs \cup {OutputPath} ELSE fs
        /\ IF status = 0
           THEN /\ events' = Append(events, Event("exit_zero", YtDlp))
                /\ reference_video' = OutputPath
                /\ pc' = "check"
                /\ UNCHANGED <<stdout, exit_code>>
           ELSE /\ events' = Append(events, Event("exit_nonzero", YtDlp))
                /\ stdout' = Append(stdout, Text("err_download"))
                /\ SysExit(1)
                /\ UNCHANGED reference_video
    /\ UNCHANGED <<args, checked, results, i, stderr>>

\* the loop of line 133 over the reference alone
OnlyReference == <<reference_video>>

\* line 133
VideoPaths == <<reference_video, args.distorted>>

\* os.path.exists(path): raises TypeError on None
Exists(path) == path \in fs

\* main, lines 133-136, one iteration of the loop
CheckExists ==
    /\ pc = "check"
    /\ LET video_path == VideoPaths[checked + 1]
       IN  IF video_path = None
           THEN /\ Uncaught("TypeError")
                /\ UNCHANGED <<checked, stdout, events>>
           ELSE IF Exists(video_path)
           THEN /\ events' = Append(events, Event("exists", video_path))
                /\ checked' = checked + 1
                /\ pc' = IF checked + 1 = Len(VideoPaths) THEN "compare" ELSE "check"
                /\ UNCHANGED <<stdout, stderr, exit_code>>
           ELSE /\ events' = Append(events, Event("absent", video_path))
                /\ stdout' = Append(stdout, Text("err_file_not_found"))
                /\ SysExit(1)
                /\ UNCHANGED <<checked, stderr>>
    /\ UNCHANGED <<args, fs, reference_video, running, results, i>>

\* run_video_comparison up to the start of the child, lines 38-50; no
\* handler of lines 52-58 catches FileNotFoundError
CompareCall ==
    /\ pc = "compare"
    /\ stdout' = stdout \o <<Text("running_comparison"), Text("reference"),
                             Text("distorted"), Text("using_metrics")>>
    /\ \E found \in BOOLEAN :
        IF found
        THEN /\ running' = running \cup {Engine}
             /\ events' = Append(events, Event("call", Engine))
             /\ pc' = "eng_wait"
             /\ UNCHANGED <<stderr, exit_code>>
        ELSE /\ events' = events \o <<Event("call", Engine), Event("notfound", Engine)>>
             /\ Uncaught("FileNotFoundError")
             /\ UNCHANGED running
    /\ UNCHANGED <<args, fs, reference_video, checked, results, i>>

\* subprocess.run without check=True: the exit status is not looked at
CompareExitUnchecked ==
    /\ pc = "eng_wait"
    /\ running' = running \ {Engine}
    /\ \E status \in ExitStatuses :
        \/ /\ events' = events \o
                  <<Event(IF status = 0 THEN "exit_zero" ELSE "exit_nonzero", Engine),
                    Event("not_json", Engine)>>
           /\ stdout' = Append(stdout, Text("err_parsing"))
           /\ SysExit(1)
           /\ UNCHANGED results
        \/ \E doc \in Docs :
           /\ events' = events \o
                  <<Event(IF status = 0 THEN "exit_zero" ELSE "exit_nonzero", Engine),
                    Event("json", Engine)>>
           /\ results' = doc
           /\ pc' = "display"
           /\ UNCHANGED <<stdout, exit_code>>
    /\ UNCHANGED <<args, fs, reference_video, checked, i, stderr>>

\* the child ends: subprocess.run returns or raises and the output is parsed,
\* lines 50-58; main takes the result, line 139
CompareExit ==
    /\ pc = "eng_wait"
    /\ running' = running \ {Engine}
    /\ \E status \in ExitStatuses :
        IF status # 0
        THEN /\ events' = Append(events, Event("exit_nonzero", Engine))
             /\ stdout' = stdout \o <<Text("err_engine"), Text("command_output")>>
             /\ SysExit(1)
             /\ UNCHANGED results
        ELSE \/ /\ events' = events \o <<Event("exit_zero", Engine),
                                         Event("not_json", Engine)>>
                /\ stdout' = Append(stdout, Text("err_parsing"))
                /\ SysExit(1)
                /\ UNCHANGED results
             \/ \E doc \in Docs :
                /\ events' = events \o <<Event("exit_zero", Engine),
                                         Event("json", Engine)>>
                /\ results' = doc
                /\ pc' = "display"
                /\ UNCHANGED <<stdout, exit_code>>
    /\ UNCHANGED <<args, fs, reference_video, checked, i, stderr>>

\* display_results, lines 62-64: the title, then results.items()
DisplayBegin ==
    /\ pc = "display"
    /\ stdout' = Append(stdout, Text("title"))
    /\ IF results.isObject
       THEN pc' = "loop" /\ i' = 1 /\ UNCHANGED <<stderr, exit_code>>
       ELSE Uncaught("AttributeError") /\ UNCHANGED i
    /\ UNCHANGED <<args, fs, reference_video, checked, running, results, events>>

\* display_results, lines 64-104, one iteration of the loop
DisplayMetric ==
    /\ pc = "loop"
    /\ i <= Len(results.entries)
    /\ stdout' = stdout \o MetricBlock(results.entries[i].key, results.entries[i].val)
    /\ i' = i + 1
    /\ UNCHANGED <<args, fs, pc, reference_video, checked, running, results,
                   stderr, events, exit_code>>

\* the loop ends, display_results and main return, lines 142-145
MainReturn ==
    /\ pc = "loop"
    /\ i > Len(results.entries)
    /\ SysExit(0)
    /\ UNCHANGED <<args, fs, reference_video, checked, running, results, i,
                   stdout, stderr, events>>

Next ==
    \/ Resolve
    \/ DownloadCall
    \/ DownloadExit
    \/ CheckExists
    \/ CompareCall
    \/ CompareExit
    \/ DisplayBegin
    \/ DisplayMetric
    \/ MainReturn

Spec == Init /\ [][Next]_vars

----------------------------------------------------------------------------
(* Vocabulary of the properties *)

Exited == pc = "exited"

Happened(e, a) == \E j \in DOMAIN events : events[j] = Event(e, a)
Count(e, a) == Cardinality({j \in DOMAIN events : events[j] = Event(e, a)})
\* position of the first such event, 0 when there is none
IndexOf(e, a) ==
    IF Happened(e, a)
    THEN MinOf({j \in DOMAIN events : events[j] = Event(e, a)})
    ELSE 0

Calls == {j \in DOMAIN events : events[j].e = "call"}
ExistenceChecks == {j \in DOMAIN events : events[j].e \in {"exists", "absent"}}

DownloaderFailed == Happened("notfound", YtDlp) \/ Happened("exit_nonzero", YtDlp)

Printed(k) == \E j \in DOMAIN stdout : stdout[j].k = k
CountLines(lines, k) == Cardinality({j \in DOMAIN lines : lines[j].k = k})

\* the blocks of the report: block b runs from the b-th metric header to the
\* line before the next one
Headers == {j \in DOMAIN stdout : stdout[j].k = "metric_header"}
NumBlocks == Cardinality(Headers)
BlockStart(b) == CHOOSE j \in Headers : Cardinality({h \in Headers : h < j}) = b - 1
Block(b) ==
    IF b \in 1..NumBlocks
    THEN SubSeq(stdout, BlockStart(b),
                IF b < NumBlocks THEN BlockStart(b + 1) - 1 ELSE Len(stdout))
    ELSE <<>>

\* the items of the document the loop of display_results has gone through
Processed ==
    IF pc \in {"loop", "exited"} /\ results.isObject /\ Happened("json", Engine)
    THEN 1..(i - 1)
    ELSE {}

\* the report was printed to its end
ReportPrinted ==
    /\ Printed("title")
    /\ results.isObject
    /\ NumBlocks = Len(results.entries)
    /\ \A b \in 1..NumBlocks : Block(b)[Len(Block(b))].k = "blank"

LegendKinds ==
    {"legend_title", "legend_bad", "legend_poor", "legend_fair", "legend_good",
     "legend_excellent"}

----------------------------------------------------------------------------
(* The reporter *)

\* the band section 3 of the specification assigns to a score
BandOf(v) ==
    CASE Num(0, 0) <= v /\ v < Num(20, 0) -> "Bad"
      [] Num(20, 0) <= v /\ v < Num(40, 0) -> "Poor"
      [] Num(40, 0) <= v /\ v < Num(60, 0) -> "Fair"
      [] Num(60, 0) <= v /\ v < Num(80, 0) -> "Good"
      [] Num(80, 0) <= v /\ v <= Num(100, 0) -> "Excellent"
      [] OTHER -> "none"

ScoreBlockIsRight(blk, v) ==
    /\ CountLines(blk, "vmaf_score") = 1
    /\ \A k \in LegendKinds : CountLines(blk, k) = 1
    /\ CountLines(blk, "quality_tier") = 1
    /\ \A j \in DOMAIN blk : blk[j].k = "quality_tier" => blk[j].s = BandOf(v)

\* C1: for every vmaf result object whose mean score v is present with
\* 0 <= v <= 100, the block printed for it holds the score line, the legend
\* and exactly one quality tier, the tier of v's band: Bad for [0,20), Poor
\* for [20,40), Fair for [40,60), Good for [60,80), Excellent for [80,100].
C1_TierForEveryScore ==
    \A b \in Processed :
        LET e == results.entries[b]
        IN  (/\ e.key = "vmaf"
             /\ Has(e.val, "mean")
             /\ Num(0, 0) <= Member(e.val, "mean").num
             /\ Member(e.val, "mean").num <= Num(100, 0))
            => ScoreBlockIsRight(Block(b), Member(e.val, "mean").num)

\* What the code does do for C1's scores: the same, for every score of the
\* range except 0.
TierForEveryNonZeroScore ==
    \A b \in Processed :
        LET e == results.entries[b]
        IN  (/\ e.key = "vmaf"
             /\ Has(e.val, "mean")
             /\ Num(0, 0) < Member(e.val, "mean").num
             /\ Member(e.val, "mean").num <= Num(100, 0))
            => ScoreBlockIsRight(Block(b), Member(e.val, "mean").num)

\* the per-frame value section 4.3 gives a record: its vmaf value, 0 when the
\* record has no 'metrics' entry or no 'vmaf' value in it
ValueOrZero(frame) == IF frame.metrics /\ frame.vmaf THEN frame.v ELSE 0

HasLine(blk, k, n) ==
    /\ CountLines(blk, k) = 1
    /\ \A j \in DOMAIN blk : blk[j].k = k => blk[j].n = n

\* C8: for a vmaf result object the frame-by-frame block is printed iff the
\* per-frame records are present and non-empty, whether or not a mean score
\* is present; when printed, the frame count is the number of records and
\* Min VMAF / Max VMAF are the minimum / maximum over all records of the
\* per-frame value, a record without 'metrics' or without 'vmaf' counting 0.
C8_FrameDetails ==
    \A b \in Processed :
        LET e == results.entries[b]
            blk == Block(b)
        IN  e.key = "vmaf" =>
            IF Has(e.val, "frames") /\ Len(Member(e.val, "frames").list) > 0
            THEN LET frames == Member(e.val, "frames").list
                     values == {ValueOrZero(frames[k]) : k \in DOMAIN frames}
                 IN  /\ CountLines(blk, "frames_title") = 1
                     /\ HasLine(blk, "analyzed", Len(frames))
                     /\ HasLine(blk, "min_vmaf", Fmt2(MinOf(values)))
                     /\ HasLine(blk, "max_vmaf", Fmt2(MaxOf(values)))
            ELSE \A k \in {"frames_title", "analyzed", "min_vmaf", "max_vmaf"} :
                    CountLines(blk, k) = 0

\* a finished report of a vmaf object without mean score whose first record
\* has no 'metrics' entry and whose second has a value
C8_Witness ==
    /\ Exited
    /\ \E b \in Processed :
        LET e == results.entries[b]
        IN  /\ e.key = "vmaf"
            /\ ~Has(e.val, "mean")
            /\ Has(e.val, "frames")
            /\ Member(e.val, "frames").list =
                  <<Frame(FALSE, FALSE, 0), Frame(TRUE, TRUE, Num(95, 0))>>
            /\ HasLine(Block(b), "min_vmaf", 0)
            /\ HasLine(Block(b), "max_vmaf", Fmt2(Num(95, 0)))

NotFramesKey(member) == member.name # "frames"

\* C6: for every psnr or ssim result object the block holds exactly one line
\* for each key of the object other than 'frames', in the object's key
\* order, nothing for 'frames', and no quality tier and no legend.
C6_ComponentLines ==
    \A b \in Processed :
        LET e == results.entries[b]
            blk == Block(b)
            keys == SelectSeq(e.val.members, NotFramesKey)
        IN  e.key \in {"psnr", "ssim"} =>
            /\ Len(blk) = Len(keys) + 2
            /\ blk[1].k = "metric_header"
            /\ \A j \in DOMAIN keys :
                /\ blk[j + 1].k = "component"
                /\ blk[j + 1].s = Upper(e.key) \o " " \o keys[j].name
            /\ blk[Len(blk)].k = "blank"
            /\ \A k \in LegendKinds \cup {"quality_tier", "vmaf_score"} :
                CountLines(blk, k) = 0

\* a finished report of a psnr object whose 'frames' key comes first
C6_Witness ==
    /\ Exited
    /\ \E b \in Processed :
        LET e == results.entries[b]
        IN  /\ e.key = "psnr"
            /\ Len(e.val.members) = 2
            /\ e.val.members[1].name = "frames"
            /\ e.val.members[1].list # <<>>
            /\ CountLines(Block(b), "component") = 1

KnownMetrics == {"vmaf", "psnr", "ssim"}

\* C7: display_results goes through the top-level keys in the order
\* received; for a key other than vmaf, psnr and ssim it prints the raw
\* sub-document through the fallback, whatever JSON value it is, and the
\* report completes without error; every block, of any kind, ends with
\* exactly one blank line.
C7_OrderFallbackBlank ==
    /\ NumBlocks = Cardinality(Processed)
    /\ \A b \in Processed :
        LET e == results.entries[b]
            blk == Block(b)
        IN  /\ blk[1] = Line("metric_header", Upper(e.key), 0, NoDoc)
            /\ e.key \notin KnownMetrics =>
                  blk = <<blk[1], Line("json", "", 0, e.val), Text("blank")>>
            /\ blk[Len(blk)].k = "blank"
            /\ CountLines(blk, "blank") = 1
    /\ (Exited /\ Happened("json", Engine) /\ results.isObject) =>
        /\ Processed = DOMAIN results.entries
        /\ stderr = <<>>
        /\ exit_code = 0

\* a finished report of an unknown key holding null, followed by a vmaf key
C7_Witness ==
    /\ Exited
    /\ exit_code = 0
    /\ Len(results.entries) = 2
    /\ results.entries[1] = Entry("foo", Raw("null"))
    /\ results.entries[2].key = "vmaf"
    /\ NumBlocks = 2

----------------------------------------------------------------------------
(* The pipeline *)

\* the reference is resolved: a path was passed through, or the download
\* returned one
Resolved == pc \notin {"main", "download", "dl_wait"} /\ ~DownloaderFailed
InputMissing == reference_video \notin fs \/ args.distorted \notin fs

\* C2: the exit code is 0 when the run succeeds and the report is printed,
\* and 1 when the downloader executable is missing, when the downloader exits
\* non-zero, when a required input file is missing after resolution, when the
\* metrics engine exits non-zero, and when the engine exits zero with an
\* output that is no JSON.
C2_ExitCodes ==
    Exited =>
        /\ (ReportPrinted /\ stderr = <<>>) => exit_code = 0
        /\ Happened("notfound", YtDlp) => exit_code = 1
        /\ Happened("exit_nonzero", YtDlp) => exit_code = 1
        /\ (Resolved /\ InputMissing) => exit_code = 1
        /\ Happened("exit_nonzero", Engine) => exit_code = 1
        /\ Happened("not_json", Engine) => exit_code = 1

\* the engine exited zero with an output that is no JSON, and the run is over
C2_Witness ==
    /\ Exited
    /\ Happened("exit_zero", Engine)
    /\ Happened("not_json", Engine)
    /\ exit_code = 1

\* C3: in every run where --youtube is given, for any URL value, exactly one
\* downloader call occurs, before any file-existence check; if that call
\* fails (non-zero exit or executable not found) no metrics-engine call
\* occurs.
C3_OneDownloadFirst ==
    args.youtube # None =>
        /\ Count("call", YtDlp) <= 1
        /\ pc \notin {"main", "download"} => Count("call", YtDlp) = 1
        /\ \A j \in ExistenceChecks : IndexOf("call", YtDlp) \in 1..(j - 1)
        /\ DownloaderFailed => ~Happened("call", Engine)

\* What the code does do for C3: the same, for every URL but the empty string.
OneDownloadFirstForNonEmptyUrl ==
    YoutubeRequested =>
        /\ Count("call", YtDlp) <= 1
        /\ pc \notin {"main", "download"} => Count("call", YtDlp) = 1
        /\ \A j \in ExistenceChecks : IndexOf("call", YtDlp) \in 1..(j - 1)
        /\ DownloaderFailed => ~Happened("call", Engine)

\* C4: if, after the reference is resolved, the reference path or the
\* distorted path does not exist, the run can only end with exit code 1; the
\* metrics engine is never called and no report is printed, whichever file
\* is absent and wherever the reference came from.
C4_MissingInputIsFatal ==
    (Resolved /\ InputMissing) =>
        /\ pc \in {"check", "exited"}
        /\ Exited => exit_code = 1
        /\ ~Happened("call", Engine)
        /\ ~Printed("title")

\* a downloaded reference exists, the distorted file does not, the run is over
C4_Witness ==
    /\ Exited
    /\ args.youtube = Url
    /\ Happened("exit_zero", YtDlp)
    /\ reference_video \in fs
    /\ args.distorted \notin fs
    /\ Happened("absent", args.distorted)
    /\ exit_code = 1

\* C5 as stated: exactly two subprocess invocations occur per run, one after
\* the other; no run performs more or fewer than two.
C5_ExactlyTwoInvocations ==
    /\ Cardinality(running) <= 1
    /\ Exited => Cardinality(Calls) = 2

\* C5 as amended: at most two subprocess invocations occur per run, strictly
\* one after the other (the engine is never called before the downloader has
\* exited, and no two children are alive at once): the downloader's, once,
\* only when --youtube holds a non-empty URL; the engine's, once, only when
\* both input files exist.  A run performs exactly two iff the download was
\* requested, exited zero and both input files exist.
C5_AtMostTwoSequential ==
    /\ Cardinality(running) <= 1
    /\ Cardinality(Calls) <= 2
    /\ Count("call", YtDlp) <= 1
    /\ Count("call", Engine) <= 1
    /\ Happened("call", YtDlp) => YoutubeRequested
    /\ Happened("call", Engine) => ~InputMissing
    /\ (Happened("call", YtDlp) /\ Happened("call", Engine)) =>
        /\ IndexOf("call", YtDlp) < IndexOf("exit_zero", YtDlp)
        /\ IndexOf("exit_zero", YtDlp) < IndexOf("call", Engine)
    /\ Exited =>
        (Cardinality(Calls) = 2 <=>
            (YoutubeRequested /\ Happened("exit_zero", YtDlp) /\ ~InputMissing))

\* a finished run that called the downloader and then the engine
C5_Witness ==
    /\ Exited
    /\ Cardinality(Calls) = 2
    /\ Happened("exit_zero", YtDlp)
    /\ Happened("exit_zero", Engine)

\* the six ways section 7 lets a run end
EndsWith(diagnostics) ==
    /\ Len(stdout) >= Len(diagnostics)
    /\ SubSeq(stdout, Len(stdout) - Len(diagnostics) + 1, Len(stdout)) = diagnostics
    /\ stderr = <<>>
    /\ exit_code = 1

Success == ReportPrinted /\ stderr = <<>> /\ exit_code = 0
DownloaderNotFound == EndsWith(<<Text("err_ytdlp_not_found")>>)
DownloaderFailedEnd == EndsWith(<<Text("err_download")>>)
MissingInputFile == EndsWith(<<Text("err_file_not_found")>>)
EngineFailed == EndsWith(<<Text("err_engine"), Text("command_output")>>)
UnparseableOutput == EndsWith(<<Text("err_parsing")>>)

\* C9: every run ends in exactly one of six ways: success (report printed,
\* exit code 0) or one of the five errors of the taxonomy, each printing its
\* diagnostic and exiting with code 1; whatever the downloader, the files,
\* the metrics-engine executable, its exit status and its output are.
C9_SixWays ==
    Exited =>
        Cardinality({w \in 1..6 :
            <<Success, DownloaderNotFound, DownloaderFailedEnd, MissingInputFile,
              EngineFailed, UnparseableOutput>>[w]}) = 1

\* What the code does do for C9: a seventh way to end, the interpreter's
\* report of an exception no handler catches, with exit code 1.
UncaughtException == stderr # <<>> /\ exit_code = 1
EndsInOneOfSevenWays ==
    Exited =>
        Cardinality({w \in 1..7 :
            <<Success, DownloaderNotFound, DownloaderFailedEnd, MissingInputFile,
              EngineFailed, UnparseableOutput, UncaughtException>>[w]}) = 1

Failures == {"notfound", "exit_nonzero", "absent", "not_json"}

\* C10: the stages run in a fixed order and fail-stop: the report header is
\* printed only after the metrics engine was called, exited zero and its
\* output parsed as JSON; the engine is called at most once and only after
\* both existence checks passed; after a failure no later stage runs and no
\* external call is retried.
C10_StagesInOrder ==
    /\ Printed("title") =>
        /\ Happened("call", Engine)
        /\ IndexOf("call", Engine) < IndexOf("exit_zero", Engine)
        /\ IndexOf("exit_zero", Engine) < IndexOf("json", Engine)
        /\ \A j \in DOMAIN events : events[j].e \notin Failures
    /\ Count("call", Engine) <= 1
    /\ Count("call", YtDlp) <= 1
    /\ Happened("call", Engine) =>
        /\ ~InputMissing
        /\ Happened("exists", reference_video)
        /\ IndexOf("exists", reference_video) < IndexOf("exists", args.distorted)
        /\ IndexOf("exists", args.distorted) < IndexOf("call", Engine)
    /\ \A j \in ExistenceChecks :
        Happened("call", YtDlp) => IndexOf("exit_zero", YtDlp) \in 1..(j - 1)
    /\ \A j \in DOMAIN events :
        events[j].e \in Failures =>
            /\ j = Len(events)
            /\ Exited
            /\ exit_code = 1
            /\ ~Printed("title")
    /\ stderr # <<>> => Exited /\ exit_code = 1 /\ Len(stderr) = 1

\* a finished run that downloaded, checked, compared and printed its report
C10_Witness ==
    /\ Exited
    /\ exit_code = 0
    /\ YoutubeRequested
    /\ Printed("title")
    /\ NumBlocks > 0

====
